---- MODULE Spec2Model ----
(***************************************************************************)
(* Contrastive training core of catalyst:                                  *)
(*   - ContrastiveDataset   (contrib/data/datawrappers/contrastive_dataset)*)
(*   - IContrastiveRunner   batch normalisation and dual forward pass      *)
(*   - ContrastiveRunner    get_callbacks auto-wiring and predict_batch    *)
(* Tensors are modelled as finite sequences of integers, batches as        *)
(* functions from key strings to tensors, ordered callback dictionaries as *)
(* sequences of named entries.                                             *)
(***************************************************************************)
EXTENDS Integers, Sequences, FiniteSets, TLC

VARIABLES
    ds_pc,       \* dataset: "off" | "new" | "built" | "failed"
    ds_args,     \* arguments given to ContrastiveDataset.__init__
    ds,          \* the dataset object (its attributes) or NoObject
    record,      \* what the last __getitem__ returned, or NoRecord
    calls,       \* transform invocations made by the last __getitem__
    fetched,     \* the index the last __getitem__ was given, -1 before the first
    fetches,     \* number of __getitem__ calls made
    cfg,         \* runner key names set by IContrastiveRunner.__init__
    rpc,         \* runner: "off" | "idle" | "loaded" | "started" | "handled" | "error"
    raw,         \* the batch the loader produced for the current step
    batch,       \* self.batch
    pre,         \* the batch the last forward pass was given
    err,         \* the exception that aborted the current step, or "none"
    steps,       \* number of batches loaded
    output,      \* what the last predict_batch returned
    wpc,         \* wiring: "off" | "ready" | "wired"
    comps,       \* which of criterion / optimizer / scheduler are configured
    registered,  \* self._callbacks, the caller-supplied callbacks
    callbacks,   \* the dictionary the last get_callbacks returned
    setups       \* number of get_callbacks calls made

dsVars == <<ds_pc, ds_args, ds, record, calls, fetched, fetches>>
runVars == <<rpc, raw, batch, pre, err, steps, output>>
wireVars == <<wpc, comps, registered, callbacks, setups>>
vars == <<ds_pc, ds_args, ds, record, calls, fetched, fetches, cfg, rpc, raw, batch, pre,
          err, steps, output, wpc, comps, registered, callbacks, setups>>

(***************************************************************************)
(* Bounds of the model.                                                    *)
(***************************************************************************)
NumSamples == 2
MaxNoise == 1
MaxFetches == 2
MaxFlatLen == 4
MaxSteps == 2
MaxCallbacks == 2
MaxSetups == 2

(***************************************************************************)
(* Ordered key -> value dictionaries (Python dict).                        *)
(***************************************************************************)
EmptyMap == [k \in {} |-> <<>>]

\* d[k] = v : a later write to the same key replaces the earlier value
Put(m, k, v) == [y \in (DOMAIN m) \cup {k} |-> IF y = k THEN v ELSE m[y]]

\* {**a, **b}
Merge(a, b) == [y \in (DOMAIN a) \cup (DOMAIN b) |-> IF y \in DOMAIN b THEN b[y] ELSE a[y]]

(***************************************************************************)
(* ContrastiveDataset                                                      *)
(***************************************************************************)
None == "None"
Transforms == {"identity", "negate", "jitter"}
TransformArgs == Transforms \cup {None}

\* the wrapped dataset: sample i has input i and target (i-1) % 2, i.e. 0,1,0,1,...
BaseDataset == [i \in 1..NumSamples |-> <<i, (i - 1) % 2>>]

NoObject == [made |-> FALSE, transform_left |-> None, transform_right |-> None]
NoArgs == [transforms |-> None, transform_left |-> None, transform_right |-> None]
NoRecord == EmptyMap

\* one invocation of a transform; "jitter" is stochastic, noise is its draw
Apply(t, x, noise) ==
    CASE t = "identity" -> <<x>>
      [] t = "negate" -> <<0 - x>>
      [] t = "jitter" -> <<x + noise>>
      [] OTHER -> <<>>

\* ContrastiveDataset.__init__ (a faulty variant: the first test joined by `or`)
DatasetInitEither(transforms, transform_left, transform_right) ==
    IF transform_right # None \/ transform_left # None
    THEN [made |-> TRUE, transform_left |-> transform_left,
          transform_right |-> transform_right]
    ELSE IF transforms # None
    THEN [made |-> TRUE, transform_left |-> transforms, transform_right |-> transforms]
    ELSE NoObject

\* ContrastiveDataset.__init__ (a faulty variant: `transforms` tested first)
DatasetInitSharedFirst(transforms, transform_left, transform_right) ==
    IF transforms # None
    THEN [made |-> TRUE, transform_left |-> transforms, transform_right |-> transforms]
    ELSE IF transform_right # None /\ transform_left # None
    THEN [made |-> TRUE, transform_left |-> transform_left,
          transform_right |-> transform_right]
    ELSE NoObject

\* ContrastiveDataset.__init__: the object built, NoObject when ValueError is raised
DatasetInit(transforms, transform_left, transform_right) ==
    IF transform_right # None /\ transform_left # None
    THEN [made |-> TRUE, transform_left |-> transform_left,
          transform_right |-> transform_right]
    ELSE IF transforms # None
    THEN [made |-> TRUE, transform_left |-> transforms, transform_right |-> transforms]
    ELSE NoObject

\* ContrastiveDataset.__len__
DatasetLen(self) == Len(BaseDataset)

\* ContrastiveDataset.__getitem__: the two transform calls, in order
GetItemCalls(self, idx, n1, n2) ==
    LET sample == BaseDataset[idx + 1][1]
    IN <<[fn |-> self.transform_left, arg |-> sample,
          out |-> Apply(self.transform_left, sample, n1)],
         [fn |-> self.transform_right, arg |-> sample,
          out |-> Apply(self.transform_right, sample, n2)]>>

\* ContrastiveDataset.__getitem__: the record returned
GetItem(self, idx, n1, n2) ==
    LET target == BaseDataset[idx + 1][2]
        cs == GetItemCalls(self, idx, n1, n2)
    IN Put(Put(Put(EmptyMap, "aug1", cs[1].out), "aug2", cs[2].out), "target", <<target>>)

\* torch default collation of a list of records: per key, the samples stacked
RECURSIVE Stack(_, _, _)
Stack(records, k, n) ==
    IF n = 0 THEN <<>> ELSE Stack(records, k, n - 1) \o records[n][k]

Collate(records) == [k \in DOMAIN records[1] |-> Stack(records, k, Len(records))]

(***************************************************************************)
(* IContrastiveRunner: key names, batch normalisation, dual forward pass   *)
(***************************************************************************)
Prefixes == {"aug", "projection", "embedding"}
TargetKeys == {"target", "projection_left"}

\* IContrastiveRunner.__init__: the key names are stored as given, unchecked
RunnerInit(target_key, loss_key, augemention_prefix, projection_prefix, embedding_prefix) ==
    [target_key |-> target_key, loss_key |-> loss_key,
     augemention_prefix |-> augemention_prefix,
     projection_prefix |-> projection_prefix,
     embedding_prefix |-> embedding_prefix]

\* the signature's defaults
DefaultCfg == RunnerInit("target", "loss", "aug", "projection", "embedding")

Configs ==
    {RunnerInit(t, "loss", a, p, e) :
        t \in TargetKeys, a \in Prefixes, p \in Prefixes, e \in Prefixes}

\* f"{prefix}_left", f"{prefix}_right"
LeftKey(prefix) == prefix \o "_left"
RightKey(prefix) == prefix \o "_right"

NoBatch == [kind |-> "none", items |-> <<>>, map |-> EmptyMap]
Flat(items) == [kind |-> "flat", items |-> items, map |-> EmptyMap]
Dict(map) == [kind |-> "dict", items |-> <<>>, map |-> map]

Ok(b) == [ok |-> TRUE, batch |-> b, err |-> "none"]
Raise(e) == [ok |-> FALSE, batch |-> NoBatch, err |-> e]

\* _process_batch (a faulty variant: the length assertion dropped, short tuples padded)
ProcessBatchNoAssert(self, b) ==
    IF b.kind = "flat"
    THEN LET at(i) == IF i <= Len(b.items) THEN b.items[i] ELSE <<>>
         IN Ok(Dict(Put(Put(Put(EmptyMap,
                LeftKey(self.augemention_prefix), at(1)),
                RightKey(self.augemention_prefix), at(2)),
                self.target_key, at(3))))
    ELSE Ok(b)

\* IContrastiveRunner._process_batch
ProcessBatch(self, b) ==
    IF b.kind = "flat"
    THEN IF Len(b.items) = 3
         THEN Ok(Dict(Put(Put(Put(EmptyMap,
                LeftKey(self.augemention_prefix), b.items[1]),
                RightKey(self.augemention_prefix), b.items[2]),
                self.target_key, b.items[3])))
         ELSE Raise("AssertionError")
    ELSE Ok(b)

\* what one call of self.model can do: return (embedding, projection), return
\* something that is not a pair, or raise
Outcomes == {"pair", "single", "raise"}
Embedding(x) == <<100>> \o x
Projection(x) == <<200>> \o x
ModelCall(x, o) ==
    CASE o = "pair" -> [raised |-> FALSE, value |-> <<Embedding(x), Projection(x)>>]
      [] o = "single" -> [raised |-> FALSE, value |-> <<Embedding(x)>>]
      [] o = "raise" -> [raised |-> TRUE, value |-> <<>>]

\* IContrastiveRunner._process_input; oL, oR: the outcomes of the two model calls
ProcessInput(self, b, oL, oR) ==
    LET kl == LeftKey(self.augemention_prefix)
        kr == RightKey(self.augemention_prefix)
    IN IF b.kind # "dict" THEN Raise("TypeError")
       ELSE IF kl \notin DOMAIN b.map THEN Raise("KeyError")
       ELSE LET r1 == ModelCall(b.map[kl], oL)
            IN IF r1.raised THEN Raise("ModelError")
               ELSE IF Len(r1.value) # 2 THEN Raise("ValueError")
               ELSE IF kr \notin DOMAIN b.map THEN Raise("KeyError")
               ELSE LET r2 == ModelCall(b.map[kr], oR)
                    IN IF r2.raised THEN Raise("ModelError")
                       ELSE IF Len(r2.value) # 2 THEN Raise("ValueError")
                       ELSE Ok(Dict(Put(Put(Put(Put(b.map,
                              LeftKey(self.projection_prefix), r1.value[2]),
                              RightKey(self.projection_prefix), r2.value[2]),
                              LeftKey(self.embedding_prefix), r1.value[1]),
                              RightKey(self.embedding_prefix), r2.value[1])))

\* IContrastiveRunner.forward
Forward(self, b, oL, oR) == ProcessInput(self, b, oL, oR)

\* the batches a loader can hand to the runner
FlatItem(i) == <<2 * i - 1, 2 * i>>
FlatBatch(n) == Flat([i \in 1..n |-> FlatItem(i)])
KeyedBatch(c) ==
    Dict(Put(Put(Put(EmptyMap,
        LeftKey(c.augemention_prefix), FlatItem(1)),
        RightKey(c.augemention_prefix), FlatItem(2)),
        c.target_key, FlatItem(3)))
DatasetBatch ==
    LET self == DatasetInit("identity", None, None)
    IN Dict(Collate([i \in 1..NumSamples |-> GetItem(self, i - 1, 0, 0)]))
RawBatches(c) == {FlatBatch(n) : n \in 0..MaxFlatLen} \cup {KeyedBatch(c), DatasetBatch}

NoOutput == [state |-> "none", given |-> NoBatch, map |-> EmptyMap, err |-> "none"]

\* the loader loop binds the next batch to self.batch; on_batch_start reads
\* it from there. A step that raised may be skipped or end the run.
LoadBatch ==
    /\ rpc \in {"idle", "handled", "error"}
    /\ steps < MaxSteps
    /\ \E b \in RawBatches(cfg) :
          /\ raw' = b
          /\ batch' = b
    /\ rpc' = "loaded"
    /\ err' = "none"
    /\ pre' = NoBatch
    /\ steps' = steps + 1
    /\ UNCHANGED <<cfg, output>>
    /\ UNCHANGED dsVars
    /\ UNCHANGED wireVars

\* IContrastiveRunner.on_batch_start; the engine's own start hook that follows
\* the assignment does not touch self.batch
OnBatchStart ==
    /\ rpc = "loaded"
    /\ LET r == ProcessBatch(cfg, batch)
       IN IF r.ok
          THEN /\ batch' = r.batch
               /\ rpc' = "started"
               /\ err' = "none"
          ELSE /\ batch' = batch
               /\ rpc' = "error"
               /\ err' = r.err
    /\ UNCHANGED <<cfg, raw, pre, steps, output>>
    /\ UNCHANGED dsVars
    /\ UNCHANGED wireVars

\* IContrastiveRunner.handle_batch(self.batch)
HandleBatch ==
    /\ rpc = "started"
    /\ \E oL \in Outcomes, oR \in Outcomes :
          LET r == Forward(cfg, batch, oL, oR)
          IN IF r.ok
             THEN /\ batch' = Dict(Merge(batch.map, r.batch.map))
                  /\ rpc' = "handled"
                  /\ err' = "none"
             ELSE /\ batch' = batch
                  /\ rpc' = "error"
                  /\ err' = r.err
    /\ pre' = batch
    /\ UNCHANGED <<cfg, raw, steps, output>>
    /\ UNCHANGED dsVars
    /\ UNCHANGED wireVars

\* ContrastiveRunner.predict_batch(b); engine.sync_device keeps keys and values
PredictBatch ==
    /\ rpc \in {"idle", "handled", "error"}
    /\ \E b \in RawBatches(cfg), oL \in Outcomes, oR \in Outcomes :
          LET nb == ProcessBatch(cfg, b)
              r == Forward(cfg, nb.batch, oL, oR)
          IN output' =
                IF ~nb.ok
                THEN [state |-> "error", given |-> NoBatch, map |-> EmptyMap, err |-> nb.err]
                ELSE IF ~r.ok
                THEN [state |-> "error", given |-> nb.batch, map |-> EmptyMap, err |-> r.err]
                ELSE [state |-> "ok", given |-> nb.batch, map |-> r.batch.map, err |-> "none"]
    /\ UNCHANGED <<cfg, rpc, raw, batch, pre, err, steps>>
    /\ UNCHANGED dsVars
    /\ UNCHANGED wireVars

RunnerOff ==
    /\ rpc = "off"
    /\ raw = NoBatch
    /\ batch = NoBatch
    /\ pre = NoBatch
    /\ err = "none"
    /\ steps = 0
    /\ output = NoOutput

InitRunner ==
    /\ cfg \in Configs
    /\ rpc = "idle"
    /\ raw = NoBatch
    /\ batch = NoBatch
    /\ pre = NoBatch
    /\ err = "none"
    /\ steps = 0
    /\ output = NoOutput

(***************************************************************************)
(* Actions of the dataset                                                  *)
(***************************************************************************)
\* dataset = ContrastiveDataset(base, transforms, transform_left, transform_right)
Construct ==
    /\ ds_pc = "new"
    /\ \E t \in TransformArgs, tl \in TransformArgs, tr \in TransformArgs :
          /\ ds_args' = [transforms |-> t, transform_left |-> tl, transform_right |-> tr]
          /\ ds' = DatasetInit(t, tl, tr)
          /\ ds_pc' = IF DatasetInit(t, tl, tr).made THEN "built" ELSE "failed"
    /\ UNCHANGED <<record, calls, fetched, fetches, cfg>>
    /\ UNCHANGED runVars
    /\ UNCHANGED wireVars

\* dataset[idx]
Fetch ==
    /\ ds_pc = "built"
    /\ fetches < MaxFetches
    /\ \E idx \in 0..(DatasetLen(ds) - 1), n1 \in 0..MaxNoise, n2 \in 0..MaxNoise :
          /\ record' = GetItem(ds, idx, n1, n2)
          /\ calls' = GetItemCalls(ds, idx, n1, n2)
          /\ fetched' = idx
    /\ fetches' = fetches + 1
    /\ UNCHANGED <<ds_pc, ds_args, ds, cfg>>
    /\ UNCHANGED runVars
    /\ UNCHANGED wireVars

DatasetOff ==
    /\ ds_pc = "off"
    /\ ds_args = NoArgs
    /\ ds = NoObject
    /\ record = NoRecord
    /\ calls = <<>>
    /\ fetched = -1
    /\ fetches = 0

InitDataset ==
    /\ ds_pc = "new"
    /\ ds_args = NoArgs
    /\ ds = NoObject
    /\ record = NoRecord
    /\ calls = <<>>
    /\ fetched = -1
    /\ fetches = 0

(***************************************************************************)
(* ContrastiveRunner.get_callbacks: auto-wiring of the default callbacks   *)
(***************************************************************************)
Roles == {"criterion", "optimizer", "scheduler"}
CallbackRoles == Roles \cup {"other"}
CallerNames == {"accuracy", "_criterion", "_optimizer", "_scheduler"}

\* a callback a caller registered; its role is what callback_isinstance sees
CallerCallback(role) ==
    [role |-> role, origin |-> "caller", input_key |-> "", target_key |-> "",
     metric_key |-> "", loader_key |-> ""]

\* CriterionCallback(input_key=..., target_key=..., metric_key=...)
CriterionCallback(input_key, target_key, metric_key) ==
    [role |-> "criterion", origin |-> "auto", input_key |-> input_key,
     target_key |-> target_key, metric_key |-> metric_key, loader_key |-> ""]

\* OptimizerCallback(metric_key=...)
OptimizerCallback(metric_key) ==
    [role |-> "optimizer", origin |-> "auto", input_key |-> "", target_key |-> "",
     metric_key |-> metric_key, loader_key |-> ""]

\* SchedulerCallback(loader_key=self._valid_loader, metric_key=self._valid_metric)
SchedulerCallback(loader_key, metric_key) ==
    [role |-> "scheduler", origin |-> "auto", input_key |-> "", target_key |-> "",
     metric_key |-> metric_key, loader_key |-> loader_key]

Entry(name, cb) == [name |-> name, cb |-> cb]
Names(cbs) == {cbs[i].name : i \in DOMAIN cbs}

\* callbacks[name] = cb on an OrderedDict: a new name is appended, an existing
\* name keeps its position and gets the new value
SetItem(cbs, name, cb) ==
    IF name \in Names(cbs)
    THEN [i \in DOMAIN cbs |-> IF cbs[i].name = name THEN Entry(name, cb) ELSE cbs[i]]
    ELSE Append(cbs, Entry(name, cb))

\* super().get_callbacks(stage): the registered callbacks, as an ordered dictionary
BaseCallbacks(self_callbacks) == self_callbacks

\* is_callback_exists(I<Role>Callback) over callbacks.values()
IsCallbackExists(cbs, role) == \E i \in DOMAIN cbs : cbs[i].cb.role = role

\* the criterion branch of get_callbacks
WireCriterion(self, components, cbs) ==
    IF components.criterion /\ ~IsCallbackExists(cbs, "criterion")
    THEN SetItem(cbs, "_criterion",
            CriterionCallback(self.projection_prefix \o "_1",
                              self.projection_prefix \o "_2",
                              self.loss_key))
    ELSE cbs

\* the optimizer branch of get_callbacks
WireOptimizer(self, components, cbs) ==
    IF components.optimizer /\ ~IsCallbackExists(cbs, "optimizer")
    THEN SetItem(cbs, "_optimizer", OptimizerCallback(self.loss_key))
    ELSE cbs

\* the scheduler branch of get_callbacks
WireScheduler(self, components, cbs) ==
    IF components.scheduler /\ ~IsCallbackExists(cbs, "scheduler")
    THEN SetItem(cbs, "_scheduler", SchedulerCallback("valid", "loss"))
    ELSE cbs

\* ContrastiveRunner.get_callbacks on the dictionary super().get_callbacks returned
GetCallbacks(self, components, base) ==
    WireScheduler(self, components,
        WireOptimizer(self, components,
            WireCriterion(self, components, base)))

Components ==
    [criterion : BOOLEAN, optimizer : BOOLEAN, scheduler : BOOLEAN]
NoComponents == [criterion |-> FALSE, optimizer |-> FALSE, scheduler |-> FALSE]

CallerEntries == {Entry(n, CallerCallback(r)) : n \in CallerNames, r \in CallbackRoles}

\* the dictionaries of callbacks a caller can register: distinct names, any roles
SuppliedSets ==
    {s \in UNION {[1..n -> CallerEntries] : n \in 0..MaxCallbacks} :
        \A i, j \in DOMAIN s : i # j => s[i].name # s[j].name}

WiringConfigs == {RunnerInit("target", "loss", "aug", p, "embedding") : p \in Prefixes}

\* stage start: self.callbacks = self.get_callbacks(stage)
StageSetup ==
    /\ wpc \in {"ready", "wired"}
    /\ setups < MaxSetups
    /\ callbacks' = GetCallbacks(cfg, comps, BaseCallbacks(registered))
    /\ wpc' = "wired"
    /\ setups' = setups + 1
    /\ UNCHANGED <<cfg, comps, registered>>
    /\ UNCHANGED dsVars
    /\ UNCHANGED runVars

WiringOff ==
    /\ wpc = "off"
    /\ comps = NoComponents
    /\ registered = <<>>
    /\ callbacks = <<>>
    /\ setups = 0

InitWiring ==
    /\ cfg \in WiringConfigs
    /\ wpc = "ready"
    /\ comps \in Components
    /\ registered \in SuppliedSets
    /\ callbacks = <<>>
    /\ setups = 0

(***************************************************************************)
(* The three components are exercised one at a time.                       *)
(***************************************************************************)
Init ==
    \/ InitDataset /\ cfg = DefaultCfg /\ RunnerOff /\ WiringOff
    \/ DatasetOff /\ InitRunner /\ WiringOff
    \/ DatasetOff /\ RunnerOff /\ InitWiring

Next ==
    \/ Construct
    \/ Fetch
    \/ LoadBatch
    \/ OnBatchStart
    \/ HandleBatch
    \/ PredictBatch
    \/ StageSetup

Spec == Init /\ [][Next]_vars

\* the runner alone, built with the signature's default key names
InitDefault == DatasetOff /\ InitRunner /\ cfg = DefaultCfg /\ WiringOff

NextRunner ==
    \/ LoadBatch
    \/ OnBatchStart
    \/ HandleBatch
    \/ PredictBatch

SpecDefault == InitDefault /\ [][NextRunner]_vars

(***************************************************************************)
(* Properties of ContrastiveDataset                                        *)
(***************************************************************************)

\* C7: constructing the dataset fails exactly when `transforms` is absent and
\* at least one of `transform_left` / `transform_right` is absent; a failed
\* construction produces no dataset object and no fetch ever runs on it.
C7_ConstructionFailsIffUnderspecified ==
    ds_pc \in {"built", "failed"} =>
        /\ (ds_pc = "failed") <=>
              /\ ds_args.transforms = None
              /\ (ds_args.transform_left = None \/ ds_args.transform_right = None)
        /\ ds_pc = "failed" => (ds = NoObject /\ record = NoRecord /\ fetches = 0)
        /\ ds_pc = "built" =>
              (ds.made /\ ds.transform_left # None /\ ds.transform_right # None)

\* C7 case: only one per-view transform and no shared one was given, and
\* construction was refused
C7_Witness ==
    /\ ds_pc = "failed"
    /\ ds_args.transforms = None
    /\ ds_args.transform_left = "negate"
    /\ ds_args.transform_right = None

\* C8: with both per-view transforms given, aug1 is transform_left(input_i)
\* and aug2 is transform_right(input_i), never the output of `transforms`;
\* with only `transforms`, both views are separate invocations of it on the
\* same input; target is the base dataset's target at i and the record has
\* exactly the keys aug1, aug2, target.
C8_ViewsComeFromDesignatedTransforms ==
    fetched # -1 =>
        LET both == ds_args.transform_left # None /\ ds_args.transform_right # None
            left == IF both THEN ds_args.transform_left ELSE ds_args.transforms
            right == IF both THEN ds_args.transform_right ELSE ds_args.transforms
            input == BaseDataset[fetched + 1][1]
        IN /\ DOMAIN record = {"aug1", "aug2", "target"}
           /\ record["target"] = <<BaseDataset[fetched + 1][2]>>
           /\ Len(calls) = 2
           /\ calls[1].fn = left /\ calls[1].arg = input
           /\ calls[2].fn = right /\ calls[2].arg = input
           /\ record["aug1"] = calls[1].out
           /\ record["aug2"] = calls[2].out
           /\ \E n \in 0..MaxNoise : record["aug1"] = Apply(left, input, n)
           /\ \E n \in 0..MaxNoise : record["aug2"] = Apply(right, input, n)

\* C8 case: all three transforms were given and differ, and the second sample
\* was fetched
C8_Witness ==
    /\ fetched = 1
    /\ ds_args.transforms = "identity"
    /\ ds_args.transform_left = "negate"
    /\ ds_args.transform_right = "jitter"
    /\ record["aug1"] = <<-2>>
    /\ record["aug2"] = <<3>>

\* with only the shared stochastic transform, the two views of one sample can
\* differ: they are two draws, not one value used twice
SharedTransformDrawsTwice ==
    /\ fetched # -1
    /\ ds_args = [transforms |-> "jitter", transform_left |-> None, transform_right |-> None]
    /\ record["aug1"] # record["aug2"]

(***************************************************************************)
(* Properties of the batch lifecycle                                       *)
(***************************************************************************)
ViewKeys(c) == {LeftKey(c.augemention_prefix), RightKey(c.augemention_prefix)}
EnrichmentKeys(c) ==
    {LeftKey(c.projection_prefix), RightKey(c.projection_prefix),
     LeftKey(c.embedding_prefix), RightKey(c.embedding_prefix)}

\* the four output keys are not four keys, or one of them is already in b
Collides(c, b) ==
    \/ Cardinality(EnrichmentKeys(c)) # 4
    \/ EnrichmentKeys(c) \cap DOMAIN b.map # {}

\* {A_left: items[1], A_right: items[2], T: items[3]}, written out key by key
Triple(c, items) ==
    [k \in ViewKeys(c) \cup {c.target_key} |->
        IF k = c.target_key THEN items[3]
        ELSE IF k = RightKey(c.augemention_prefix) THEN items[2]
        ELSE items[1]]

\* C3: after on_batch_start returns, self.batch is a mapping holding A_left,
\* A_right and the target key, for every raw batch normalisation accepts.
C3_NormalizedBatchHasViewKeys ==
    rpc = "started" =>
        /\ batch.kind = "dict"
        /\ ViewKeys(cfg) \cup {cfg.target_key} \subseteq DOMAIN batch.map

\* C4: whenever the forward pass succeeds, the enriched batch has the keys of
\* the batch it was given plus exactly four new ones, and every key of the
\* given batch keeps its value.
C4_ForwardAddsExactlyFourKeys ==
    /\ rpc = "handled" =>
          /\ DOMAIN batch.map = DOMAIN pre.map \cup EnrichmentKeys(cfg)
          /\ Cardinality(DOMAIN batch.map \ DOMAIN pre.map) = 4
          /\ \A k \in DOMAIN pre.map : batch.map[k] = pre.map[k]
    /\ output.state = "ok" =>
          /\ DOMAIN output.map = DOMAIN output.given.map \cup EnrichmentKeys(cfg)
          /\ Cardinality(DOMAIN output.map \ DOMAIN output.given.map) = 4
          /\ \A k \in DOMAIN output.given.map : output.map[k] = output.given.map[k]

\* without colliding keys the forward pass does add exactly four keys and
\* keeps every value it was given
ForwardAddsFourKeysWithoutCollision ==
    (rpc = "handled" /\ ~Collides(cfg, pre)) =>
        /\ DOMAIN batch.map = DOMAIN pre.map \cup EnrichmentKeys(cfg)
        /\ Cardinality(DOMAIN batch.map \ DOMAIN pre.map) = 4
        /\ \A k \in DOMAIN pre.map : batch.map[k] = pre.map[k]
        /\ batch.map[LeftKey(cfg.projection_prefix)] =
              Projection(pre.map[LeftKey(cfg.augemention_prefix)])
        /\ batch.map[RightKey(cfg.projection_prefix)] =
              Projection(pre.map[RightKey(cfg.augemention_prefix)])
        /\ batch.map[LeftKey(cfg.embedding_prefix)] =
              Embedding(pre.map[LeftKey(cfg.augemention_prefix)])
        /\ batch.map[RightKey(cfg.embedding_prefix)] =
              Embedding(pre.map[RightKey(cfg.augemention_prefix)])

\* C5: when one of the four output keys already exists in the batch, or the
\* output keys coincide, the forward pass fails instead of overwriting: it
\* never succeeds on such a batch and never replaces an existing value.
C5_CollisionRaises ==
    /\ rpc = "handled" =>
          /\ ~Collides(cfg, pre)
          /\ \A k \in DOMAIN pre.map : batch.map[k] = pre.map[k]
    /\ output.state = "ok" =>
          /\ ~Collides(cfg, output.given)
          /\ \A k \in DOMAIN output.given.map : output.map[k] = output.given.map[k]

\* C6 as stated: a flat batch of length other than 3 is rejected where it is
\* found, a flat batch of length 3 becomes {A_left, A_right, T}, no malformed
\* flat batch reaches the forward pass, and none is ever self.batch.
C6_MalformedNeverCurrent ==
    /\ (raw.kind = "flat" /\ rpc \in {"started", "handled", "error"}) =>
          IF Len(raw.items) = 3
          THEN rpc = "started" => batch = Dict(Triple(cfg, raw.items))
          ELSE rpc = "error" /\ err = "AssertionError"
    /\ pre.kind # "flat"
    /\ output.given.kind # "flat"
    /\ ~(batch.kind = "flat" /\ Len(batch.items) # 3)

\* C6 amended: as above, except that self.batch, which holds the raw batch
\* when on_batch_start is entered, still holds it after the rejection; the
\* rejected batch is never replaced by a mapping and never given to forward.
C6_MalformedFlatRejected ==
    /\ (raw.kind = "flat" /\ rpc \in {"started", "handled", "error"}) =>
          IF Len(raw.items) = 3
          THEN /\ rpc = "started" => batch = Dict(Triple(cfg, raw.items))
               /\ pre \in {NoBatch, Dict(Triple(cfg, raw.items))}
          ELSE /\ rpc = "error" /\ err = "AssertionError"
               /\ batch = raw
               /\ pre = NoBatch
    /\ pre.kind # "flat"
    /\ output.given.kind # "flat"
    /\ (output.state = "error" /\ output.err = "AssertionError") => output.given = NoBatch

\* C6 case: the loader produced a flat batch of four elements and
\* on_batch_start rejected it
C6_Witness ==
    /\ rpc = "error"
    /\ err = "AssertionError"
    /\ raw.kind = "flat"
    /\ Len(raw.items) = 4
    /\ batch = raw

FailedForwardWritesNothing ==
    (rpc = "error" /\ pre # NoBatch) => batch = pre

\* with keys that do not collide, enrichment is all or nothing
EnrichmentAllOrNoneWithoutCollision ==
    (batch.kind = "dict" /\ rpc \in {"started", "error"} /\ ~Collides(cfg, batch)) =>
        EnrichmentKeys(cfg) \cap DOMAIN batch.map = {}

(***************************************************************************)
(* Properties of callback auto-wiring                                      *)
(***************************************************************************)
InternalNames == {"_criterion", "_optimizer", "_scheduler"}
Named(cbs, name) == {i \in DOMAIN cbs : cbs[i].name = name}
WithRole(cbs, role) == {i \in DOMAIN cbs : cbs[i].cb.role = role}
Injected(cbs, role) ==
    \E i \in DOMAIN cbs : cbs[i].cb.role = role /\ cbs[i].cb.origin = "auto"

\* C1: with a criterion configured and no criterion callback registered, stage
\* setup injects exactly one callback named _criterion whose input key is
\* P_left and whose target key is P_right, the keys the forward pass writes.
C1_CriterionBoundToProjectionKeys ==
    (wpc = "wired" /\ comps.criterion /\ ~IsCallbackExists(registered, "criterion")) =>
        /\ Cardinality(Named(callbacks, "_criterion")) = 1
        /\ \A i \in Named(callbacks, "_criterion") :
              /\ callbacks[i].cb.origin = "auto"
              /\ callbacks[i].cb.input_key = LeftKey(cfg.projection_prefix)
              /\ callbacks[i].cb.target_key = RightKey(cfg.projection_prefix)

\* C2: for each role, the default callback is injected if and only if the
\* component is configured and no registered callback declares the role; the
\* number of callbacks of a role the caller supplied is unchanged, and nothing
\* is injected for an absent component.
C2_InjectIffConfiguredAndMissing ==
    wpc = "wired" =>
        \A r \in Roles :
            /\ Injected(callbacks, r) <=> (comps[r] /\ ~IsCallbackExists(registered, r))
            /\ IsCallbackExists(registered, r) =>
                  Cardinality(WithRole(callbacks, r)) = Cardinality(WithRole(registered, r))
            /\ ~comps[r] => ~Injected(callbacks, r)

\* when no registered callback uses an internal name: injected iff configured
\* and not registered, and the callbacks of a registered role are untouched
InjectionDecisionWithoutNameClash ==
    (wpc = "wired" /\ Names(registered) \cap InternalNames = {}) =>
        \A r \in Roles :
            /\ Injected(callbacks, r) <=> (comps[r] /\ ~IsCallbackExists(registered, r))
            /\ IsCallbackExists(registered, r) =>
                  Cardinality(WithRole(callbacks, r)) = Cardinality(WithRole(registered, r))

\* C10: stage setup is idempotent, also on a dictionary that already holds an
\* earlier result; each internal name occurs at most once; every registered
\* callback is still present; injected entries come after all registered ones.
C10_SetupIdempotent ==
    wpc = "wired" =>
        /\ callbacks = GetCallbacks(cfg, comps, BaseCallbacks(registered))
        /\ GetCallbacks(cfg, comps, BaseCallbacks(callbacks)) = callbacks
        /\ \A n \in InternalNames : Cardinality(Named(callbacks, n)) <= 1
        /\ \A i \in DOMAIN registered : \E j \in DOMAIN callbacks : callbacks[j] = registered[i]
        /\ \A i, j \in DOMAIN callbacks :
              (callbacks[i].cb.origin = "auto" /\ callbacks[j].cb.origin = "caller") => j < i

\* names stay unique and a second setup from the registered callbacks gives the
\* same dictionary, for every registered dictionary
SetupRepeatable ==
    wpc = "wired" =>
        /\ callbacks = GetCallbacks(cfg, comps, BaseCallbacks(registered))
        /\ \A i, j \in DOMAIN callbacks : callbacks[i].name = callbacks[j].name => i = j

\* when no registered callback uses an internal name, registered callbacks are
\* kept, in order, and injected ones follow them
AppendsAfterRegistered ==
    (wpc = "wired" /\ Names(registered) \cap InternalNames = {}) =>
        /\ Len(callbacks) >= Len(registered)
        /\ SubSeq(callbacks, 1, Len(registered)) = registered
        /\ \A i \in (Len(registered) + 1)..Len(callbacks) : callbacks[i].cb.origin = "auto"
        /\ GetCallbacks(cfg, comps, BaseCallbacks(callbacks)) = callbacks

====
